---- MODULE Spec2Model ----
(***************************************************************************)
(* SnowWindow: the snow science library (services/snowScience.ts), the     *)
(* recommendation engine (services/shoveling.ts) and the mock weather      *)
(* adapter (services/weather/mockWeather.ts).                              *)
(*                                                                         *)
(* Units.  The code computes with IEEE doubles; the model computes with    *)
(* exact integers in units fine enough that every value the code forms is  *)
(* an integer:                                                             *)
(*   lengths (snowfall, rain, melt, accumulation)  1/1000 mm   Mm(x)       *)
(*   temperatures                                  1/12 deg C  Deg(x)      *)
(*   wind speeds                                   1/10 km/h   Kmh(x)      *)
(*   cloud cover                                   percent                 *)
(*   instants and durations                        minutes                 *)
(* Instants count minutes from a local midnight; a local day has 1440      *)
(* minutes (no daylight-saving change inside the modelled days).           *)
(***************************************************************************)
EXTENDS Integers, Sequences, FiniteSets, TLC

VARIABLES
    now,             \* the wall clock: what `new Date()` returns
    weather,         \* the weather data held, or Nothing
    settings,        \* areaSquareMeters, lastShoveledAt, snowplowPileHeight, carDepartureTime
    recommendation,  \* the last recommendation generated, or Nothing
    calls,           \* history: the calls made so far, in order, as [t, rec]
    ticks,           \* history: how often the clock has advanced
    mockParams,      \* the mock adapter's parameters, or Nothing
    libIn,           \* a direct call of a library function: its name and arguments
    libOut,          \* what that call returned, or Nothing
    app              \* the App component: its remaining state, fetches in flight, timers

vars == <<now, weather, settings, recommendation, calls, ticks, mockParams, libIn, libOut, app>>

Mm(x) == 1000 * x
Deg(x) == 12 * x
Kmh(x) == 10 * x
Hours(x) == 60 * x
DayMinutes == Hours(24)

\* An optional value (Date | undefined, number | undefined, T | null).
Nothing == <<>>
Just(x) == <<x>>
IsSome(o) == o # <<>>
Val(o) == o[1]

Max(a, b) == IF a >= b THEN a ELSE b

RECURSIVE SumSeq(_)
SumSeq(s) == IF s = <<>> THEN 0 ELSE Head(s) + SumSeq(Tail(s))

RECURSIVE MinSeq(_)
MinSeq(s) == IF Len(s) = 1 THEN s[1]
             ELSE LET m == MinSeq(Tail(s)) IN IF s[1] <= m THEN s[1] ELSE m

\* Math.ceil(a / b) for a >= 0, b > 0.
CeilDiv(a, b) == (a + b - 1) \div b

(***************************************************************************)
(* Snow science library                                                    *)
(***************************************************************************)
RAIN_SNOW_MELT_RATIO == 10

calculateRainMelting(rainMm) == rainMm * RAIN_SNOW_MELT_RATIO

\* mm/hour, in tenths: 0.5, 2, 5.
SOLAR_MELT_RATES == [low |-> 5, moderate |-> 20, high |-> 50]

\* rate * (1 - cloudCover/100 * 0.8) * hours, in 1/1000 mm:
\* (rate10/10) * ((1000 - 8*cloudCover)/1000) * hours * 1000.
calculateSolarMelting(tempCelsius, cloudCover, hours, isDay) ==
    IF ~isDay \/ tempCelsius <= 0 THEN 0
    ELSE LET rate == IF tempCelsius <= Deg(5) THEN SOLAR_MELT_RATES.low
                     ELSE IF tempCelsius <= Deg(10) THEN SOLAR_MELT_RATES.moderate
                     ELSE SOLAR_MELT_RATES.high
         IN (rate * (1000 - 8 * cloudCover) * hours) \div 10

SNOW_THRESHOLDS ==
    [negligible |-> 10, light |-> 25, moderate |-> 75, heavy |-> 150, veryHeavy |-> 200]

\* Mutant: the threshold itself excluded.
shouldShovelMidStormStrict(accumulationMm) == accumulationMm > Mm(SNOW_THRESHOLDS.veryHeavy)

shouldShovelMidStorm(accumulationMm) == accumulationMm >= Mm(SNOW_THRESHOLDS.veryHeavy)

COMPACTION_FREEZE_TEMP == 0

OPTIMAL_SHOVEL_WINDOW_HOURS == 2

WIND_THRESHOLDS == [calm |-> 10, moderate |-> 25, strong |-> 40, severe |-> 60]

\* The factor in tenths: 1, 1.2, 1.5, 2.
calculateWindCompactionFactor(windSpeedKmh) ==
    IF windSpeedKmh < Kmh(WIND_THRESHOLDS.calm) THEN 10
    ELSE IF windSpeedKmh < Kmh(WIND_THRESHOLDS.moderate) THEN 12
    ELSE IF windSpeedKmh < Kmh(WIND_THRESHOLDS.strong) THEN 15
    ELSE 20

\* max(0.5, baseWindowHours / factor), in minutes; baseWindowHours is a whole
\* number of hours, so 600 * baseWindowHours is divisible by 10, 12, 15 and 20.
\* Mutant: the half-hour floor forgotten.
adjustShovelWindowNoFloor(baseWindowHours, windSpeedKmh) ==
    (600 * baseWindowHours) \div calculateWindCompactionFactor(windSpeedKmh)

adjustShovelWindowForWind(baseWindowHours, windSpeedKmh) ==
    Max(30, (600 * baseWindowHours) \div calculateWindCompactionFactor(windSpeedKmh))

\* m2 per minute, in tenths: 2.5, 1.5, 0.8, 0.4.
SHOVEL_RATES == [light |-> 25, moderate |-> 15, heavy |-> 8, veryHeavy |-> 4]

\* Mutant: Math.floor in place of Math.ceil.
calculateManpowerFloor(areaSquareMeters, snowDepthMm) ==
    LET rate == IF snowDepthMm < Mm(50) THEN SHOVEL_RATES.light
                ELSE IF snowDepthMm < Mm(100) THEN SHOVEL_RATES.moderate
                ELSE IF snowDepthMm < Mm(200) THEN SHOVEL_RATES.heavy
                ELSE SHOVEL_RATES.veryHeavy
    IN (10 * areaSquareMeters) \div rate

calculateManpower(areaSquareMeters, snowDepthMm) ==
    LET rate == IF snowDepthMm < Mm(50) THEN SHOVEL_RATES.light
                ELSE IF snowDepthMm < Mm(100) THEN SHOVEL_RATES.moderate
                ELSE IF snowDepthMm < Mm(200) THEN SHOVEL_RATES.heavy
                ELSE SHOVEL_RATES.veryHeavy
    IN CeilDiv(10 * areaSquareMeters, rate)

\* Degrees Celsius.
SALT_EFFECTIVENESS == [effective |-> -5, reduced |-> -10, ineffective |-> -15]

\* Mutant: the active-rain check placed before the too-cold check.
getSaltRecommendationRainFirst(currentTemp, forecastMinTemp, snowExpected, currentRain, rainExpected) ==
    IF currentRain > 0
    THEN [shouldApply |-> FALSE, waitForRain |-> TRUE,
          reason |-> "Raining now - wait for rain to stop."]
    ELSE IF forecastMinTemp < Deg(SALT_EFFECTIVENESS.ineffective)
    THEN [shouldApply |-> FALSE, waitForRain |-> FALSE,
          reason |-> "Too cold for salt. Use sand instead."]
    ELSE IF rainExpected /\ forecastMinTemp >= 0
    THEN [shouldApply |-> FALSE, waitForRain |-> FALSE,
          reason |-> "Rain expected and no freeze expected."]
    ELSE IF currentTemp > 0 /\ forecastMinTemp < 0
    THEN IF rainExpected
         THEN [shouldApply |-> TRUE, waitForRain |-> TRUE,
               reason |-> "Apply salt after rain stops, before the freeze."]
         ELSE [shouldApply |-> TRUE, waitForRain |-> FALSE,
               reason |-> "Apply salt now before freezing temperatures arrive."]
    ELSE IF snowExpected /\ forecastMinTemp < 0
    THEN [shouldApply |-> TRUE, waitForRain |-> FALSE,
          reason |-> "Apply salt after shoveling to prevent ice formation."]
    ELSE [shouldApply |-> FALSE, waitForRain |-> FALSE,
          reason |-> "Salt not currently needed."]

\* The five-parameter getSaltRecommendation that shoveling.ts calls and
\* snowScience.test.ts exercises.  The file at hand holds the three-parameter
\* version (too cold; freeze while above freezing; snow with freeze; else
\* not needed); the current-rain and rain-expected branches follow the
\* documented behaviour and the tests: raining now (the tests pin 0 mm/h as
\* not raining and 5 mm/h as raining) gives no application and waitForRain;
\* rain expected without a freeze gives no application; rain expected
\* before a freeze while above freezing gives waitForRain with "after rain".
getSaltRecommendation(currentTemp, forecastMinTemp, snowExpected, currentRain, rainExpected) ==
    IF forecastMinTemp < Deg(SALT_EFFECTIVENESS.ineffective)
    THEN [shouldApply |-> FALSE, waitForRain |-> FALSE,
          reason |-> "Too cold for salt. Use sand instead."]
    ELSE IF currentRain > 0
    THEN [shouldApply |-> FALSE, waitForRain |-> TRUE,
          reason |-> "Raining now - wait for rain to stop."]
    ELSE IF rainExpected /\ forecastMinTemp >= 0
    THEN [shouldApply |-> FALSE, waitForRain |-> FALSE,
          reason |-> "Rain expected and no freeze expected."]
    ELSE IF currentTemp > 0 /\ forecastMinTemp < 0
    THEN IF rainExpected
         THEN [shouldApply |-> TRUE, waitForRain |-> TRUE,
               reason |-> "Apply salt after rain stops, before the freeze."]
         ELSE [shouldApply |-> TRUE, waitForRain |-> FALSE,
               reason |-> "Apply salt now before freezing temperatures arrive."]
    ELSE IF snowExpected /\ forecastMinTemp < 0
    THEN [shouldApply |-> TRUE, waitForRain |-> FALSE,
          reason |-> "Apply salt after shoveling to prevent ice formation."]
    ELSE [shouldApply |-> FALSE, waitForRain |-> FALSE,
          reason |-> "Salt not currently needed."]

\* Mutant: the floor at zero forgotten.
calculateNetAccumulationNoFloor(snowfallMm, rainMm, solarMeltMm) ==
    snowfallMm - calculateRainMelting(rainMm) - solarMeltMm

calculateNetAccumulation(snowfallMm, rainMm, solarMeltMm) ==
    LET rainMelt == calculateRainMelting(rainMm)
        net == snowfallMm - rainMelt - solarMeltMm
    IN Max(0, net)

(***************************************************************************)
(* Recommendation engine: generateRecommendation                           *)
(*                                                                         *)
(* A weather value is [current |-> [temperature, snowfall, rain],          *)
(* hourly |-> a sequence of [time, temperature, snowfall, rain,            *)
(* cloudCover, windSpeed, isDay]].  t is the value `new Date()` returns    *)
(* at the top of the call.  Message and reasoning strings are the code's   *)
(* templates without the interpolated numbers and formatted times.         *)
(***************************************************************************)
accumulationStartTime(lastShoveledAt, t) ==
    LET past24h == t - Hours(24)
    IN IF IsSome(lastShoveledAt) /\ Val(lastShoveledAt) > past24h
       THEN Val(lastShoveledAt) ELSE past24h

\* Mutant: the sample at now itself left out of the past window.
InPastStrict(h, start, t) == h.time >= start /\ h.time < t

InPast(h, start, t) == h.time >= start /\ h.time <= t

pastHours(w, lastShoveledAt, t) ==
    LET start == accumulationStartTime(lastShoveledAt, t)
    IN SelectSeq(w.hourly, LAMBDA h : InPast(h, start, t))

InNext24(h, t) == h.time - t >= 0 /\ h.time - t <= Hours(24)

next24Hours(w, t) == SelectSeq(w.hourly, LAMBDA h : InNext24(h, t))

Snowfalls(hours) == [i \in 1..Len(hours) |-> hours[i].snowfall]
Rains(hours) == [i \in 1..Len(hours) |-> hours[i].rain]
Winds(hours) == [i \in 1..Len(hours) |-> hours[i].windSpeed]
Temperatures(hours) == [i \in 1..Len(hours) |-> hours[i].temperature]

\* The solar melt the loops add for one hour (the loop's own guard included).
HourSolarMelt(h) ==
    IF h.isDay /\ h.temperature > 0
    THEN calculateSolarMelting(h.temperature, h.cloudCover, 1, h.isDay)
    ELSE 0

SolarMelts(hours) == [i \in 1..Len(hours) |-> HourSolarMelt(hours[i])]

SnowIndexes(hours) == {i \in 1..Len(hours) : hours[i].snowfall > 0}

snowStartTimeOf(next) ==
    IF SnowIndexes(next) = {} THEN Nothing
    ELSE Just(next[CHOOSE i \in SnowIndexes(next) : \A j \in SnowIndexes(next) : i <= j].time)

lastSnowHourOf(next) ==
    IF SnowIndexes(next) = {} THEN Nothing
    ELSE Just(next[CHOOSE i \in SnowIndexes(next) : \A j \in SnowIndexes(next) : i >= j].time)

\* Mutant: the snow stops at the last snowy sample itself.
snowStopTimeAtLastSample(next) == lastSnowHourOf(next)

snowStopTimeOf(next) ==
    IF IsSome(lastSnowHourOf(next)) THEN Just(Val(lastSnowHourOf(next)) + Hours(1))
    ELSE Nothing

\* Mutant: only the past-snow rule, the scan for rain right after snow dropped.
slushWarningPastOnly(next, pastSnowfall, futureRain, totalSnowfall) ==
    (pastSnowfall > Mm(5) /\ futureRain > Mm(2)) /\ totalSnowfall > Mm(5)

\* Mutant: the scan asks for more than 2 mm/h of rain after the snow.
slushWarningRainAboveTwo(next, pastSnowfall, futureRain, totalSnowfall) ==
    LET adjacent == \E i \in 1..(Len(next) - 1) :
                        next[i].snowfall > 0 /\ next[i + 1].rain > Mm(2)
        hasSnowThenRain == adjacent \/ (pastSnowfall > Mm(5) /\ futureRain > Mm(2))
    IN hasSnowThenRain /\ totalSnowfall > Mm(5)

\* Mutant: only the scan for rain right after snow, the past-snow rule dropped.
slushWarningAdjacentOnly(next, pastSnowfall, futureRain, totalSnowfall) ==
    LET adjacent == \E i \in 1..(Len(next) - 1) :
                        next[i].snowfall > 0 /\ next[i + 1].rain > Mm(1)
    IN adjacent /\ totalSnowfall > Mm(5)

slushWarningOf(next, pastSnowfall, futureRain, totalSnowfall) ==
    LET adjacent == \E i \in 1..(Len(next) - 1) :
                        next[i].snowfall > 0 /\ next[i + 1].rain > Mm(1)
        hasSnowThenRain == adjacent \/ (pastSnowfall > Mm(5) /\ futureRain > Mm(2))
    IN hasSnowThenRain /\ totalSnowfall > Mm(5)

\* Number() of a string of decimal digits; the string is a sequence of characters.
DigitValue(c) ==
    CASE c = "0" -> 0 [] c = "1" -> 1 [] c = "2" -> 2 [] c = "3" -> 3 [] c = "4" -> 4
      [] c = "5" -> 5 [] c = "6" -> 6 [] c = "7" -> 7 [] c = "8" -> 8 [] c = "9" -> 9

RECURSIVE NumberOf(_)
NumberOf(cs) ==
    IF cs = <<>> THEN 0
    ELSE 10 * NumberOf(SubSeq(cs, 1, Len(cs) - 1)) + DigitValue(cs[Len(cs)])

\* carDepartureTime.split(':').map(Number), for an "HH:MM" string.
ParseDeparture(str) ==
    LET colon == CHOOSE i \in 1..Len(str) : str[i] = ":"
    IN <<NumberOf(SubSeq(str, 1, colon - 1)), NumberOf(SubSeq(str, colon + 1, Len(str)))>>

\* Date.setHours(h, m, 0, 0) on a copy of t.
SetHours(t, h, m) == t - (t % DayMinutes) + Hours(h) + m

departureInstant(carDepartureTime, t) ==
    LET dep == ParseDeparture(carDepartureTime)
        departureToday == SetHours(t, dep[1], dep[2])
    IN IF departureToday < t THEN departureToday + DayMinutes ELSE departureToday

overnightStartOf(t) ==
    LET start == SetHours(t, 18, 0)
    IN IF start > t THEN start - DayMinutes ELSE start

\* Mutant: a departure time already passed today is not moved to tomorrow.
blocksDrivewayNoRollover(w, carDepartureTime, t) ==
    IF carDepartureTime = <<>> THEN FALSE
    ELSE LET dep == ParseDeparture(carDepartureTime)
             departureToday == SetHours(t, dep[1], dep[2])
             overnightStart == overnightStartOf(t)
             overnightHours == SelectSeq(w.hourly,
                 LAMBDA h : h.time >= overnightStart /\ h.time <= departureToday)
             overnightSnow == SumSeq(Snowfalls(overnightHours))
         IN overnightSnow >= Mm(5)

blocksDrivewayOf(w, carDepartureTime, t) ==
    IF carDepartureTime = <<>> THEN FALSE
    ELSE LET departureToday == departureInstant(carDepartureTime, t)
             overnightStart == overnightStartOf(t)
             overnightHours == SelectSeq(w.hourly,
                 LAMBDA h : h.time >= overnightStart /\ h.time <= departureToday)
             overnightSnow == SumSeq(Snowfalls(overnightHours))
         IN overnightSnow >= Mm(5)

freezeTimeOf(w, next, t) ==
    IF w.current.temperature < Deg(COMPACTION_FREEZE_TEMP) THEN Nothing
    ELSE LET cold == {i \in 1..Len(next) :
                         next[i].time > t /\ next[i].temperature < Deg(COMPACTION_FREEZE_TEMP)}
         IN IF cold = {} THEN Nothing
            ELSE Just(next[CHOOSE i \in cold : \A j \in cold : i <= j].time)

\* Math.min() of no arguments: above every temperature.
Infinity == 1000000

\* Math.min(...next24Hours.map((h) => h.temperature))
minTempOf(next) == IF next = <<>> THEN Infinity ELSE MinSeq(Temperatures(next))

\* The mean wind speed rounded down: the code compares the mean only with
\* whole thresholds, and x < n iff floor(x) < n for an integer n.
avgWindSpeedOf(next) ==
    IF Len(next) > 0 THEN SumSeq(Winds(next)) \div Len(next) ELSE 0

\* snowStopTime + adjustedWindow hours.
targetTime(snowStopTime, adjustedWindow) == snowStopTime + adjustedWindow

\* The target before any freeze deadline is looked at.
windTarget(c) ==
    targetTime(Val(c.snowStopTime),
               adjustShovelWindowForWind(OPTIMAL_SHOVEL_WINDOW_HOURS, c.avgWindSpeed))

\* "If freeze is coming, shovel before it": the branch that backdates the
\* target to 30 minutes before the freeze and sets urgency to "high".
freezeEscalated(c) ==
    IsSome(c.snowStopTime) /\ IsSome(c.freezeTime) /\ windTarget(c) > Val(c.freezeTime)

\* Mutant: the clamp to now forgotten.
clampToNowMissing(optimalTime, c) == optimalTime

\* "Ensure optimal time isn't in the past": wait for the snow to stop when it
\* is still snowing, else say now.
clampToNow(optimalTime, c) ==
    IF optimalTime < c.now
    THEN IF c.currentSnowfall > 0 /\ IsSome(c.snowStopTime) /\ Val(c.snowStopTime) > c.now
         THEN Val(c.snowStopTime)
         ELSE c.now
    ELSE optimalTime

optimalTimeOf(c) ==
    IF IsSome(c.snowStopTime)
    THEN clampToNow(IF freezeEscalated(c) THEN Val(c.freezeTime) - 30 ELSE windTarget(c), c)
    ELSE c.now

\* Mutant: the lowest band keeps the urgency it finds ("none" unless a freeze
\* escalated it) instead of setting "low".
bandUrgencyKeepsNone(netAccumulation, urgency) ==
    IF netAccumulation >= Mm(SNOW_THRESHOLDS.heavy)
    THEN [urgency |-> IF urgency = "high" THEN "urgent" ELSE "high",
          message |-> "Heavy snow expected - shovel at"]
    ELSE IF netAccumulation >= Mm(SNOW_THRESHOLDS.moderate)
    THEN [urgency |-> IF urgency = "high" THEN "high" ELSE "moderate",
          message |-> "Moderate snow expected - shovel at"]
    ELSE [urgency |-> IF urgency = "high" THEN "moderate" ELSE urgency,
          message |-> "Light-moderate snow - best to shovel at"]

\* Mutant: the bands overwrite the urgency a freeze escalation set.
bandUrgencyNoEscalation(netAccumulation, urgency) ==
    IF netAccumulation >= Mm(SNOW_THRESHOLDS.heavy)
    THEN [urgency |-> "high", message |-> "Heavy snow expected - shovel at"]
    ELSE IF netAccumulation >= Mm(SNOW_THRESHOLDS.moderate)
    THEN [urgency |-> "moderate", message |-> "Moderate snow expected - shovel at"]
    ELSE [urgency |-> "low", message |-> "Light-moderate snow - best to shovel at"]

\* Mutant: the heavy band starts at the moderate threshold.
bandUrgencyHeavyAtModerate(netAccumulation, urgency) ==
    IF netAccumulation >= Mm(SNOW_THRESHOLDS.moderate)
    THEN [urgency |-> IF urgency = "high" THEN "urgent" ELSE "high",
          message |-> "Heavy snow expected - shovel at"]
    ELSE [urgency |-> IF urgency = "high" THEN "moderate" ELSE "low",
          message |-> "Light-moderate snow - best to shovel at"]

\* "Set urgency based on accumulation"; urgency is "high" after a freeze
\* escalation and "none" otherwise.
bandUrgency(netAccumulation, urgency) ==
    IF netAccumulation >= Mm(SNOW_THRESHOLDS.heavy)
    THEN [urgency |-> IF urgency = "high" THEN "urgent" ELSE "high",
          message |-> "Heavy snow expected - shovel at"]
    ELSE IF netAccumulation >= Mm(SNOW_THRESHOLDS.moderate)
    THEN [urgency |-> IF urgency = "high" THEN "high" ELSE "moderate",
          message |-> "Moderate snow expected - shovel at"]
    ELSE [urgency |-> IF urgency = "high" THEN "moderate" ELSE "low",
          message |-> "Light-moderate snow - best to shovel at"]

\* Mutant: the plow-pile branch dropped.
overrideOutcomeNoPile(c, fallback) ==
    IF c.blocksDriveway
    THEN [urgency |-> "moderate", shouldShovel |-> TRUE, optimalTime |-> Just(c.now),
          message |-> "Clear driveway for morning departure.",
          reasoning |-> <<"Overnight accumulation blocks car access for departure.">>]
    ELSE IF c.slushWarning
    THEN [urgency |-> "low", shouldShovel |-> TRUE, optimalTime |-> Just(c.now),
          message |-> "Slush cleanup recommended.",
          reasoning |-> <<"Rain after snow creates slush that needs clearing.">>]
    ELSE fallback

\* Mutant: the slush branch tested first.
overrideOutcomeSlushFirst(c, fallback) ==
    IF c.slushWarning
    THEN [urgency |-> "low", shouldShovel |-> TRUE, optimalTime |-> Just(c.now),
          message |-> "Slush cleanup recommended.",
          reasoning |-> <<"Rain after snow creates slush that needs clearing.">>]
    ELSE IF c.snowplowPileDetected
    THEN [urgency |-> "moderate", shouldShovel |-> TRUE, optimalTime |-> Just(c.now),
          message |-> "Snowplow pile needs clearing.",
          reasoning |-> <<"Snowplow left a pile that needs removal.">>]
    ELSE IF c.blocksDriveway
    THEN [urgency |-> "moderate", shouldShovel |-> TRUE, optimalTime |-> Just(c.now),
          message |-> "Clear driveway for morning departure.",
          reasoning |-> <<"Overnight accumulation blocks car access for departure.">>]
    ELSE fallback

\* The override conditions the negligible and the light band share; fallback
\* is the band's own "no override" outcome.
overrideOutcome(c, fallback) ==
    IF c.snowplowPileDetected
    THEN [urgency |-> "moderate", shouldShovel |-> TRUE, optimalTime |-> Just(c.now),
          message |-> "Snowplow pile needs clearing.",
          reasoning |-> <<"Snowplow left a pile that needs removal.">>]
    ELSE IF c.blocksDriveway
    THEN [urgency |-> "moderate", shouldShovel |-> TRUE, optimalTime |-> Just(c.now),
          message |-> "Clear driveway for morning departure.",
          reasoning |-> <<"Overnight accumulation blocks car access for departure.">>]
    ELSE IF c.slushWarning
    THEN [urgency |-> "low", shouldShovel |-> TRUE, optimalTime |-> Just(c.now),
          message |-> "Slush cleanup recommended.",
          reasoning |-> <<"Rain after snow creates slush that needs clearing.">>]
    ELSE fallback

\* Mutant: the negligible band's fallback copied from the light band's.
negligibleFallbackOptional(c) ==
    [urgency |-> "low", shouldShovel |-> FALSE, optimalTime |-> Nothing,
     message |-> "Light dusting expected - shoveling optional.",
     reasoning |-> <<"Expected: net accumulation.">>]

negligibleFallback(c) ==
    [urgency |-> "none", shouldShovel |-> FALSE, optimalTime |-> Nothing,
     message |-> "No shoveling needed.",
     reasoning |-> IF c.totalSnowfall > 0 THEN <<"Light snow will melt naturally.">>
                   ELSE <<"No significant snow in forecast.">>]

\* Mutant: the light band's fallback names a time although it asks for nothing.
lightFallbackWithTime(c) ==
    [urgency |-> "low", shouldShovel |-> FALSE, optimalTime |-> Just(c.now),
     message |-> "Light dusting expected - shoveling optional.",
     reasoning |-> <<"Expected: net accumulation.">>]

lightFallback(c) ==
    [urgency |-> "low", shouldShovel |-> FALSE, optimalTime |-> Nothing,
     message |-> "Light dusting expected - shoveling optional.",
     reasoning |-> <<"Expected: net accumulation.">>]

moderateOutcome(netAccumulation, c) ==
    LET band == bandUrgency(netAccumulation, IF freezeEscalated(c) THEN "high" ELSE "none")
    IN [urgency |-> band.urgency, shouldShovel |-> TRUE,
        optimalTime |-> Just(optimalTimeOf(c)),
        message |-> band.message,
        reasoning |->
            (IF freezeEscalated(c) THEN <<"Temperature drops below freezing at.">> ELSE <<>>)
            \o (IF IsSome(c.snowStopTime) THEN <<"Snow expected to stop around.">> ELSE <<>>)
            \o (IF IsSome(c.snowStopTime) /\ c.avgWindSpeed >= Kmh(WIND_THRESHOLDS.moderate)
                THEN <<"Wind speeds up compaction - shovel sooner.">> ELSE <<>>)
            \o <<"Expected accumulation.">>]

\* Mutant: the mid-storm rule tested last, after the bands.
decideUrgencyMidStormLast(netAccumulation, c) ==
    IF netAccumulation < Mm(SNOW_THRESHOLDS.negligible)
    THEN overrideOutcome(c, negligibleFallback(c))
    ELSE IF netAccumulation < Mm(SNOW_THRESHOLDS.light)
    THEN overrideOutcome(c, lightFallback(c))
    ELSE IF netAccumulation >= Mm(SNOW_THRESHOLDS.light)
    THEN moderateOutcome(netAccumulation, c)
    ELSE [urgency |-> "urgent", shouldShovel |-> TRUE, optimalTime |-> Just(c.now),
          message |-> "Heavy snowfall - shovel now to prevent buildup!",
          reasoning |-> <<"Accumulation exceeds threshold.">>]

\* "Determine urgency and recommendation": the if / else-if chain on the net
\* accumulation, given everything else the chain reads.
decideUrgency(netAccumulation, c) ==
    IF c.currentSnowfall > 0 /\ shouldShovelMidStorm(netAccumulation)
    THEN [urgency |-> "urgent", shouldShovel |-> TRUE, optimalTime |-> Just(c.now),
          message |-> "Heavy snowfall - shovel now to prevent buildup!",
          reasoning |-> <<"Accumulation exceeds threshold.">>]
    ELSE IF netAccumulation < Mm(SNOW_THRESHOLDS.negligible)
    THEN overrideOutcome(c, negligibleFallback(c))
    ELSE IF netAccumulation < Mm(SNOW_THRESHOLDS.light)
    THEN overrideOutcome(c, lightFallback(c))
    ELSE moderateOutcome(netAccumulation, c)

\* The five arguments generateRecommendation passes to getSaltRecommendation.
saltInputsOf(w, c) ==
    [currentTemp |-> w.current.temperature,
     forecastMinTemp |-> c.minTemp,
     snowExpected |-> c.totalSnowfall > Mm(SNOW_THRESHOLDS.negligible),
     currentRain |-> w.current.rain,
     rainExpected |-> c.totalRain > Mm(2)]

\* areaSquareMeters * 0.02 kg, shown as "~x.y kg" from 1 kg on and as
\* "~n g" below: the unit and the number shown (tenths of a kg, or grams).
saltAmountStr(areaSquareMeters) ==
    LET grams == 20 * areaSquareMeters
    IN IF grams >= 1000 THEN <<"kg", (grams + 50) \div 100>> ELSE <<"g", grams>>

\* The SaltAdvice object built from the salt recommendation.
saltAdviceOf(saltRec, optimalTime, areaSquareMeters, t) ==
    LET timingMessage ==
            IF saltRec.waitForRain THEN "Wait for rain to stop, then apply."
            ELSE IF IsSome(optimalTime) /\ Val(optimalTime) > t THEN "Apply before"
            ELSE "Apply now."
    IN [shouldApply |-> saltRec.shouldApply,
        reason |-> saltRec.reason,
        timing |-> IF saltRec.shouldApply THEN optimalTime ELSE Nothing,
        amount |-> IF saltRec.shouldApply THEN Just(saltAmountStr(areaSquareMeters)) ELSE Nothing,
        timingMessage |-> IF saltRec.shouldApply THEN Just(timingMessage) ELSE Nothing]

\* Everything generateRecommendation derives from its inputs before the
\* urgency decision.
aggregate(w, lastShoveledAt, snowplowPileHeight, carDepartureTime, t) ==
    LET past == pastHours(w, lastShoveledAt, t)
        next == next24Hours(w, t)
        pastSnowfall == SumSeq(Snowfalls(past))
        pastRain == SumSeq(Rains(past))
        pastSolarMelt == SumSeq(SolarMelts(past))
        futureSnowfall == SumSeq(Snowfalls(next))
        futureRain == SumSeq(Rains(next))
        futureSolarMelt == SumSeq(SolarMelts(next))
        totalSnowfall == pastSnowfall + futureSnowfall
    IN [now |-> t,
        pastSnowfall |-> pastSnowfall,
        pastRain |-> pastRain,
        pastSolarMelt |-> pastSolarMelt,
        futureSnowfall |-> futureSnowfall,
        futureRain |-> futureRain,
        futureSolarMelt |-> futureSolarMelt,
        totalSnowfall |-> totalSnowfall,
        totalRain |-> pastRain + futureRain,
        totalSolarMelt |-> pastSolarMelt + futureSolarMelt,
        snowStartTime |-> snowStartTimeOf(next),
        snowStopTime |-> snowStopTimeOf(next),
        slushWarning |-> slushWarningOf(next, pastSnowfall, futureRain, totalSnowfall),
        snowplowPileDetected |-> IsSome(snowplowPileHeight) /\ Val(snowplowPileHeight) > 0,
        blocksDriveway |-> blocksDrivewayOf(w, carDepartureTime, t),
        freezeTime |-> freezeTimeOf(w, next, t),
        minTemp |-> minTempOf(next),
        avgWindSpeed |-> avgWindSpeedOf(next),
        currentSnowfall |-> w.current.snowfall,
        sinceShoveled |-> IsSome(lastShoveledAt) /\ Val(lastShoveledAt) > t - Hours(24)]

\* The recommendation object returned, from the decision d and the salt
\* recommendation saltRec.
recommendationOf(w, areaSquareMeters, t, c, netAccumulation, d, estimatedMinutes, saltRec) ==
    [shouldShovel |-> d.shouldShovel,
     urgency |-> d.urgency,
     optimalTime |-> d.optimalTime,
     message |-> d.message,
     reasoning |->
         (IF c.pastSnowfall > 0
          THEN IF c.sinceShoveled
               THEN <<"accumulated since last shoveled, expected.">>
               ELSE <<"accumulated in past 24h, expected.">>
          ELSE <<>>)
         \o d.reasoning
         \o (IF IsSome(estimatedMinutes) /\ Val(estimatedMinutes) # 0
             THEN <<"Estimated clearing time.">> ELSE <<>>)
         \o (IF saltRec.waitForRain
             THEN <<"Salt timing: wait for rain to stop before applying.">> ELSE <<>>),
     estimatedMinutes |-> estimatedMinutes,
     salt |-> saltAdviceOf(saltRec, d.optimalTime, areaSquareMeters, t),
     totalAccumulation |-> netAccumulation,
     slushWarning |-> c.slushWarning,
     blocksDriveway |-> c.blocksDriveway,
     snowplowPileDetected |-> c.snowplowPileDetected,
     isCurrentlySnowing |-> w.current.snowfall > 0,
     snowStartTime |-> c.snowStartTime,
     snowStopTime |-> c.snowStopTime]

\* The manpower estimate, made when action is recommended.
estimatedMinutesOf(d, areaSquareMeters, netAccumulation) ==
    IF d.shouldShovel THEN Just(calculateManpower(areaSquareMeters, netAccumulation))
    ELSE Nothing

\* The salt recommendation for the inputs in.
saltRecOf(in) ==
    getSaltRecommendation(in.currentTemp, in.forecastMinTemp, in.snowExpected,
                          in.currentRain, in.rainExpected)

\* From the urgency decision on.
decided(w, areaSquareMeters, t, c, netAccumulation, d) ==
    recommendationOf(w, areaSquareMeters, t, c, netAccumulation, d,
                     estimatedMinutesOf(d, areaSquareMeters, netAccumulation),
                     saltRecOf(saltInputsOf(w, c)))

\* From the net accumulation on.
accumulated(w, areaSquareMeters, t, c, netAccumulation) ==
    decided(w, areaSquareMeters, t, c, netAccumulation, decideUrgency(netAccumulation, c))

\* From the sums and flags c on.
aggregated(w, areaSquareMeters, t, c) ==
    accumulated(w, areaSquareMeters, t, c,
                calculateNetAccumulation(c.totalSnowfall, c.totalRain, c.totalSolarMelt))

generateRecommendationAt(w, areaSquareMeters, lastShoveledAt, snowplowPileHeight, carDepartureTime, t) ==
    aggregated(w, areaSquareMeters, t,
               aggregate(w, lastShoveledAt, snowplowPileHeight, carDepartureTime, t))

\* generateRecommendation reads the clock itself: `const now = new Date()`.
generateRecommendation(w, areaSquareMeters, lastShoveledAt, snowplowPileHeight, carDepartureTime) ==
    generateRecommendationAt(w, areaSquareMeters, lastShoveledAt, snowplowPileHeight,
                             carDepartureTime, now)

(***************************************************************************)
(* Mock weather adapter                                                    *)
(***************************************************************************)
\* Mutant: the active duration off by one (i <= durationHours).
MockHourInclusive(p, t, i) ==
    LET hourTime == t + Hours(i)
        isActive == i <= p.durationHours
        temp == IF p.tempTrend = "rising" THEN p.temperature + 5 * i
                ELSE IF p.tempTrend = "falling" THEN p.temperature - 5 * i
                ELSE p.temperature
        hour == (hourTime % DayMinutes) \div 60
    IN [time |-> hourTime,
        temperature |-> temp,
        snowfall |-> IF isActive THEN p.snowfallRate ELSE 0,
        rain |-> IF isActive THEN p.rainRate ELSE 0,
        cloudCover |-> IF isActive THEN p.cloudCover ELSE Max(0, p.cloudCover - 30),
        windSpeed |-> IF isActive THEN p.windSpeed ELSE (p.windSpeed * 6) \div 10,
        isDay |-> hour >= 6 /\ hour < 18]

MockHour(p, t, i) ==
    LET hourTime == t + Hours(i)
        isActive == i < p.durationHours
        temp == IF p.tempTrend = "rising" THEN p.temperature + 5 * i
                ELSE IF p.tempTrend = "falling" THEN p.temperature - 5 * i
                ELSE p.temperature
        hour == (hourTime % DayMinutes) \div 60
    IN [time |-> hourTime,
        temperature |-> temp,
        snowfall |-> IF isActive THEN p.snowfallRate ELSE 0,
        rain |-> IF isActive THEN p.rainRate ELSE 0,
        cloudCover |-> IF isActive THEN p.cloudCover ELSE Max(0, p.cloudCover - 30),
        windSpeed |-> IF isActive THEN p.windSpeed ELSE (p.windSpeed * 6) \div 10,
        isDay |-> hour >= 6 /\ hour < 18]

\* MockWeatherAdapter.fetchWeather at clock reading t: 24 hourly samples from t.
MockFetchWeather(p, t) ==
    [current |-> [temperature |-> p.temperature, snowfall |-> p.snowfallRate,
                  rain |-> p.rainRate],
     hourly |-> [k \in 1..24 |-> MockHour(p, t, k - 1)]]

Scenario(id, temperature, tempTrend, snowfallRate, rainRate, cloudCover, windSpeed, durationHours) ==
    [id |-> id, temperature |-> Deg(temperature), tempTrend |-> tempTrend,
     snowfallRate |-> snowfallRate, rainRate |-> rainRate, cloudCover |-> cloudCover,
     windSpeed |-> Kmh(windSpeed), durationHours |-> durationHours]

PRESET_SCENARIOS == {
    Scenario("heavy-overnight-snow", -8, "stable", Mm(15), 0, 95, 15, 6),
    Scenario("light-snow-rain-melt", 2, "rising", Mm(2), Mm(5), 85, 10, 4),
    Scenario("freezing-rain", 3, "falling", 0, Mm(3), 90, 20, 6),
    Scenario("wind-compaction", -5, "stable", Mm(8), 0, 80, 60, 8),
    Scenario("solar-melting", 4, "rising", 1500, 0, 20, 5, 6),
    Scenario("mid-storm-threshold", -10, "falling", Mm(20), 0, 100, 40, 4),
    Scenario("clear-no-action", -2, "stable", 0, 0, 10, 8, 24),
    Scenario("salt-timing-test", 5, "falling", 0, Mm(4), 70, 12, 8),
    Scenario("thundersnow", -3, "stable", Mm(12), 0, 100, 35, 3),
    Scenario("fog-light-snow", 0, "stable", Mm(3), 0, 95, 5, 12) }

(***************************************************************************)
(* Inputs                                                                  *)
(***************************************************************************)
MaxHours == 2
MaxTicks == 2
MaxCalls == 2

SampleKinds == {
    [temperature |-> Deg(-3), snowfall |-> Mm(6), rain |-> 0, cloudCover |-> 100,
     windSpeed |-> Kmh(12), isDay |-> FALSE],
    [temperature |-> Deg(1), snowfall |-> Mm(30), rain |-> 0, cloudCover |-> 50,
     windSpeed |-> Kmh(30), isDay |-> TRUE],
    [temperature |-> Deg(-1), snowfall |-> Mm(110), rain |-> 0, cloudCover |-> 100,
     windSpeed |-> Kmh(45), isDay |-> FALSE],
    [temperature |-> Deg(3), snowfall |-> 0, rain |-> Mm(2), cloudCover |-> 100,
     windSpeed |-> Kmh(5), isDay |-> TRUE] }

Currents == {
    [temperature |-> Deg(-3), snowfall |-> Mm(6), rain |-> 0],
    [temperature |-> Deg(1), snowfall |-> 0, rain |-> 0],
    [temperature |-> Deg(1), snowfall |-> Mm(30), rain |-> 0] }

\* Minutes between the first hourly sample and the clock reading.
StartAgos == {0, 1, 45, 60}

\* 06:30 and 18:30 of the third modelled day.
NowSet == {2 * DayMinutes + Hours(6) + 30, 2 * DayMinutes + Hours(18) + 30}

DepartureTimes == {<<>>, <<"0", "7", ":", "0", "0">>}

KindSeries == UNION {[1..n -> SampleKinds] : n \in 0..MaxHours}

Timed(kinds, start) ==
    [i \in 1..Len(kinds) |->
        [time |-> start + Hours(i - 1),
         temperature |-> kinds[i].temperature,
         snowfall |-> kinds[i].snowfall,
         rain |-> kinds[i].rain,
         cloudCover |-> kinds[i].cloudCover,
         windSpeed |-> kinds[i].windSpeed,
         isDay |-> kinds[i].isDay]]

WeatherSet(t) ==
    {[current |-> c, hourly |-> Timed(k, t - ago)] :
        c \in Currents, k \in KindSeries, ago \in StartAgos}

SettingsSet(t) ==
    [areaSquareMeters : {50},
     lastShoveledAt : {Nothing, Just(t - 30)},
     snowplowPileHeight : {Nothing, Just(0), Just(50)},
     carDepartureTime : DepartureTimes]

DefaultSettings ==
    [areaSquareMeters |-> 50, lastShoveledAt |-> Nothing,
     snowplowPileHeight |-> Nothing, carDepartureTime |-> <<>>]

\* App.tsx 93-114: the App component as first rendered with nothing stored.
\* location: whether a location is set; inFlight: the calls of fetchWeather
\* awaiting the adapter, each with the settings its closure captured;
\* started, loadedBy, failed: the number of fetches started, the fetch whose
\* data is stored, the fetches that threw; timers: the window.setTimeout
\* timers outstanding; shown: the notifications shown, with the setting at
\* that moment; intervalDue: when the 15-minute interval fires next;
\* last, events: the handler that ran last and the number of user events.
AppInitial ==
    [location |-> FALSE, isLoading |-> FALSE, error |-> FALSE, devModeActive |-> FALSE,
     notificationsEnabled |-> FALSE, permission |-> "default",
     inFlight |-> {}, started |-> 0, loadedBy |-> 0, failed |-> {},
     timers |-> {}, timerCount |-> 0, shown |-> {}, intervalDue |-> Nothing,
     last |-> "mount", events |-> 0]

(***************************************************************************)
(* State machine                                                           *)
(***************************************************************************)
Init ==
    /\ now \in NowSet
    /\ \E w \in WeatherSet(now) : weather = Just(w)
    /\ settings \in SettingsSet(now)
    /\ recommendation = Nothing
    /\ calls = <<>>
    /\ ticks = 0
    /\ mockParams = Nothing
    /\ libIn = Nothing
    /\ libOut = Nothing
    /\ app = AppInitial

\* Mutant: the reasoning array kept at module level, so that a call's
\* reasoning starts with what the call before it pushed.
GenerateSharedReasoning ==
    /\ IsSome(weather)
    /\ Len(calls) < MaxCalls
    /\ LET rec == generateRecommendation(Val(weather), settings.areaSquareMeters,
                      settings.lastShoveledAt, settings.snowplowPileHeight,
                      settings.carDepartureTime)
           kept == IF IsSome(recommendation) THEN Val(recommendation).reasoning ELSE <<>>
           out == [rec EXCEPT !.reasoning = kept \o rec.reasoning]
       IN /\ recommendation' = Just(out)
          /\ calls' = Append(calls, [t |-> now, rec |-> out])
    /\ UNCHANGED <<now, weather, settings, ticks, mockParams, libIn, libOut, app>>

\* A call generateRecommendation(weather, area, lastShoveledAt, pile, departure)
\* whose result the caller stores.
Generate ==
    /\ IsSome(weather)
    /\ Len(calls) < MaxCalls
    /\ LET rec == generateRecommendation(Val(weather), settings.areaSquareMeters,
                      settings.lastShoveledAt, settings.snowplowPileHeight,
                      settings.carDepartureTime)
       IN /\ recommendation' = Just(rec)
          /\ calls' = Append(calls, [t |-> now, rec |-> rec])
    /\ UNCHANGED <<now, weather, settings, ticks, mockParams, libIn, libOut, app>>

\* Time passes between two reads of the clock.
Tick ==
    /\ ticks < MaxTicks
    /\ now' = now + 1
    /\ ticks' = ticks + 1
    /\ UNCHANGED <<weather, settings, recommendation, calls, mockParams, libIn, libOut, app>>

\* MockWeatherAdapter.fetchWeather: `const now = new Date()` and 24 samples.
FetchMock ==
    /\ IsSome(mockParams)
    /\ weather = Nothing
    /\ weather' = Just(MockFetchWeather(Val(mockParams), now))
    /\ UNCHANGED <<now, settings, recommendation, calls, ticks, mockParams, libIn, libOut, app>>

Next == Generate

Spec == Init /\ [][Next]_vars

\* Repeated calls with the same arguments while the clock runs.
CallSeries == UNION {[1..n -> SampleKinds] : n \in 0..(MaxHours - 1)}

InitCalls ==
    /\ now \in NowSet
    /\ \E c \in Currents, k \in CallSeries, ago \in StartAgos :
          weather = Just([current |-> c, hourly |-> Timed(k, now - ago)])
    /\ settings \in SettingsSet(now)
    /\ recommendation = Nothing
    /\ calls = <<>>
    /\ ticks = 0
    /\ mockParams = Nothing
    /\ libIn = Nothing
    /\ libOut = Nothing
    /\ app = AppInitial

NextCalls == Generate \/ Tick

SpecCalls == InitCalls /\ [][NextCalls]_vars

\* The preset scenarios through the mock adapter, with the default settings.
ScenarioNows == {2 * DayMinutes + Hours(h) + m : h \in 0..23, m \in {0, 30}}

InitScenario ==
    /\ now \in ScenarioNows
    /\ \E p \in PRESET_SCENARIOS : mockParams = Just(p)
    /\ weather = Nothing
    /\ settings = DefaultSettings
    /\ recommendation = Nothing
    /\ calls = <<>>
    /\ ticks = 0
    /\ libIn = Nothing
    /\ libOut = Nothing
    /\ app = AppInitial

NextScenario == FetchMock \/ Tick \/ Generate

SpecScenario == InitScenario /\ [][NextScenario]_vars

\* Series that straddle the bounds of the past and the future window: the
\* first sample's time relative to the clock reading.
WindowStarts ==
    {0 - Hours(25), 0 - Hours(24) - 1, 0 - Hours(24), 0 - Hours(1), 0 - 30,
     Hours(23), Hours(23) + 1}

\* The sample kinds and a night hour of steady rain.
WindowKinds ==
    SampleKinds \cup
    {[temperature |-> Deg(2), snowfall |-> 0, rain |-> Mm(3), cloudCover |-> 100,
      windSpeed |-> Kmh(20), isDay |-> FALSE]}

WindowSeries == UNION {[1..n -> WindowKinds] : n \in 1..MaxHours}

\* None; half an hour ago; 23.5 hours ago; exactly 24 hours ago; 30 hours ago.
WindowLastShoveled(t) ==
    {Nothing, Just(t - 30), Just(t - Hours(24) + 30), Just(t - Hours(24)), Just(t - Hours(30))}

InitWindows ==
    /\ now \in NowSet
    /\ \E k \in WindowSeries, st \in WindowStarts :
          weather = Just([current |-> [temperature |-> Deg(1), snowfall |-> 0, rain |-> 0],
                          hourly |-> Timed(k, now + st)])
    /\ \E ls \in WindowLastShoveled(now) :
          settings = [DefaultSettings EXCEPT !.lastShoveledAt = ls]
    /\ recommendation = Nothing
    /\ calls = <<>>
    /\ ticks = 0
    /\ mockParams = Nothing
    /\ libIn = Nothing
    /\ libOut = Nothing
    /\ app = AppInitial

NextWindows == Generate

SpecWindows == InitWindows /\ [][NextWindows]_vars

\* Direct calls of the library functions, as the unit tests make them.
MidStormInputs ==
    {[fn |-> "shouldShovelMidStorm", accumulationMm |-> a] :
        a \in {0, Mm(199), 199999, Mm(200), 200001, Mm(201), Mm(400)}}

SaltInputs ==
    [fn : {"getSaltRecommendation"},
     currentTemp : {Deg(-20), Deg(-3), 0, Deg(2), Deg(5)},
     forecastMinTemp : {Deg(-25), Deg(-16), Deg(-15), Deg(-5), Deg(-3), 0, Deg(3), Deg(5)},
     snowExpected : BOOLEAN,
     currentRain : {0, Mm(5)},
     rainExpected : BOOLEAN]

ManpowerAreas == {0, 1, 4, 25, 50, 100}

ManpowerDepths ==
    {0, Mm(30), 49999, Mm(50), Mm(75), 99999, Mm(100), Mm(150), 199999, Mm(200), Mm(250)}

ManpowerInputs ==
    [fn : {"calculateManpower"}, areaSquareMeters : ManpowerAreas, snowDepthMm : ManpowerDepths]

\* Whole hours.
WindowBases == {0, 1, 2, 3}

WindowWinds ==
    {0, Kmh(5), 99, Kmh(10), 249, Kmh(25), 399, Kmh(40), Kmh(45), Kmh(60), Kmh(100)}

WindowInputs ==
    [fn : {"adjustShovelWindowForWind"}, baseWindowHours : WindowBases, windSpeedKmh : WindowWinds]

InitLib ==
    /\ now \in NowSet
    /\ weather = Nothing
    /\ settings = DefaultSettings
    /\ recommendation = Nothing
    /\ calls = <<>>
    /\ ticks = 0
    /\ mockParams = Nothing
    /\ \E i \in MidStormInputs \cup SaltInputs \cup ManpowerInputs \cup WindowInputs :
          libIn = Just(i)
    /\ libOut = Nothing
    /\ app = AppInitial

CallShouldShovelMidStorm ==
    /\ IsSome(libIn) /\ libOut = Nothing
    /\ Val(libIn).fn = "shouldShovelMidStorm"
    /\ libOut' = Just(shouldShovelMidStorm(Val(libIn).accumulationMm))
    /\ UNCHANGED <<now, weather, settings, recommendation, calls, ticks, mockParams, libIn, app>>

CallGetSaltRecommendation ==
    /\ IsSome(libIn) /\ libOut = Nothing
    /\ Val(libIn).fn = "getSaltRecommendation"
    /\ libOut' = Just(getSaltRecommendation(Val(libIn).currentTemp, Val(libIn).forecastMinTemp,
                           Val(libIn).snowExpected, Val(libIn).currentRain,
                           Val(libIn).rainExpected))
    /\ UNCHANGED <<now, weather, settings, recommendation, calls, ticks, mockParams, libIn, app>>

CallCalculateManpower ==
    /\ IsSome(libIn) /\ libOut = Nothing
    /\ Val(libIn).fn = "calculateManpower"
    /\ libOut' = Just(calculateManpower(Val(libIn).areaSquareMeters, Val(libIn).snowDepthMm))
    /\ UNCHANGED <<now, weather, settings, recommendation, calls, ticks, mockParams, libIn, app>>

CallAdjustShovelWindowForWind ==
    /\ IsSome(libIn) /\ libOut = Nothing
    /\ Val(libIn).fn = "adjustShovelWindowForWind"
    /\ libOut' = Just(adjustShovelWindowForWind(Val(libIn).baseWindowHours,
                                                Val(libIn).windSpeedKmh))
    /\ UNCHANGED <<now, weather, settings, recommendation, calls, ticks, mockParams, libIn, app>>

NextLib ==
    \/ CallShouldShovelMidStorm
    \/ CallGetSaltRecommendation
    \/ CallCalculateManpower
    \/ CallAdjustShovelWindowForWind

SpecLib == InitLib /\ [][NextLib]_vars

(***************************************************************************)
(* The App component and the notification service                          *)
(***************************************************************************)
MaxEvents == 2

\* The first modelled clock reading: 06:30 of the third day.
AppStart == 2 * DayMinutes + Hours(6) + 30

\* How far the clock moves between two events.
AppSteps == {Hours(2)}

SnowHour ==
    [temperature |-> Deg(1), snowfall |-> Mm(30), rain |-> 0, cloudCover |-> 50,
     windSpeed |-> Kmh(30), isDay |-> TRUE]

DryHour ==
    [temperature |-> Deg(1), snowfall |-> 0, rain |-> 0, cloudCover |-> 50,
     windSpeed |-> Kmh(30), isDay |-> TRUE]

\* What the forecast service may answer: snow at 05:00, 06:00 and 07:00 of
\* the third day, or a dry morning.
RealWeathers ==
    {[current |-> [temperature |-> Deg(1), snowfall |-> 0, rain |-> 0],
      hourly |-> Timed(<<SnowHour, SnowHour, SnowHour, DryHour>>, 2 * DayMinutes + Hours(5))],
     [current |-> [temperature |-> Deg(1), snowfall |-> 0, rain |-> 0],
      hourly |-> Timed(<<DryHour, DryHour>>, 2 * DayMinutes + Hours(6))]}

MockPresets == {p \in PRESET_SCENARIOS : p.id \in {"heavy-overnight-snow", "clear-no-action"}}

AppAreas == {100}

AppPileHeights == {50}

\* showNotification: nothing without the permission, else a notification.
showNotification(a, t) ==
    IF a.permission # "granted" THEN a
    ELSE [a EXCEPT !.shown = @ \cup {[at |-> t, enabled |-> a.notificationsEnabled]}]

\* scheduleNotification at clock reading t: shown at once when the time has
\* come, else a new timer, whose id the caller receives.
scheduleNotification(a, scheduledTime, t) ==
    LET delay == scheduledTime - t
    IN IF delay <= 0 THEN showNotification(a, t)
       ELSE [a EXCEPT !.timerCount = @ + 1,
                      !.timers = @ \cup {[id |-> a.timerCount + 1, fireAt |-> scheduledTime]}]

\* The interval effect: when location, fetchWeather or devModeActive changed,
\* the old interval is cleared and, in real mode with a location, a new one set.
refreshEffect(a, changed) ==
    [a EXCEPT !.intervalDue =
        IF changed THEN (IF a.location /\ ~a.devModeActive THEN Just(now + 15) ELSE Nothing)
        ELSE @]

\* fetchWeather after the adapter answered with data: the state is set and
\* the notification scheduled, all with the settings of the closure.
fetchWeatherResolved(a, id, closure, data) ==
    \E rec \in {generateRecommendation(data, closure.settings.areaSquareMeters,
                      closure.settings.lastShoveledAt, closure.settings.snowplowPileHeight,
                      closure.settings.carDepartureTime)} :
        /\ weather' = Just(data)
        /\ recommendation' = Just(rec)
        /\ IF closure.notificationsEnabled /\ rec.shouldShovel /\ IsSome(rec.optimalTime)
           THEN \E notifyTime \in {Val(rec.optimalTime) - 30} :
                   IF notifyTime > now
                   THEN app' = [scheduleNotification(a, notifyTime, now)
                                  EXCEPT !.isLoading = FALSE, !.loadedBy = id]
                   ELSE app' = [a EXCEPT !.isLoading = FALSE, !.loadedBy = id]
           ELSE app' = [a EXCEPT !.isLoading = FALSE, !.loadedBy = id]

\* fetchWeather(loc, useMock), called in the state a: the mock adapter's
\* promise is already resolved, so its continuation runs before any other
\* event; the real adapter's request stays in flight.
fetchWeather(a, useMock, params) ==
    LET id == a.started + 1
        closure == [settings |-> settings, notificationsEnabled |-> app.notificationsEnabled]
        a0 == [a EXCEPT !.started = id, !.isLoading = TRUE, !.error = FALSE]
    IN IF useMock
       THEN fetchWeatherResolved(a0, id, closure, MockFetchWeather(params, now))
       ELSE /\ app' = [a0 EXCEPT !.inFlight = @ \cup {[id |-> id, closure |-> closure]}]
            /\ UNCHANGED <<weather, recommendation>>

\* The state a user event (or the interval) starts from.
Event(name) == [app EXCEPT !.last = name, !.events = @ + 1]

\* The stored settings: the default ones, notifications on or off.
InitApp ==
    /\ now = AppStart
    /\ weather = Nothing
    /\ settings = DefaultSettings
    /\ recommendation = Nothing
    /\ calls = <<>>
    /\ ticks = 0
    /\ mockParams = Just(CHOOSE p \in PRESET_SCENARIOS : p.id = "heavy-overnight-snow")
    /\ libIn = Nothing
    /\ libOut = Nothing
    /\ \E loc \in BOOLEAN, en \in BOOLEAN, perm \in {"default", "granted"} :
          /\ en => perm = "granted"
          /\ LET a == [AppInitial EXCEPT !.location = loc, !.notificationsEnabled = en,
                                         !.permission = perm]
             IN app = IF loc
                      THEN [a EXCEPT !.started = 1, !.isLoading = TRUE,
                                     !.intervalDue = Just(now + 15),
                                     !.inFlight = {[id |-> 1,
                                                    closure |-> [settings |-> DefaultSettings,
                                                                 notificationsEnabled |-> en]]}]
                      ELSE a

handleLocationSet ==
    /\ app.events < MaxEvents
    /\ fetchWeather(refreshEffect([Event("handleLocationSet") EXCEPT !.location = TRUE], TRUE),
                    app.devModeActive, Val(mockParams))
    /\ UNCHANGED <<now, settings, calls, ticks, mockParams, libIn, libOut>>

\* The Retry button of the error banner.
onRetry ==
    /\ app.events < MaxEvents
    /\ app.error /\ app.location
    /\ fetchWeather(Event("onRetry"), app.devModeActive, Val(mockParams))
    /\ UNCHANGED <<now, settings, calls, ticks, mockParams, libIn, libOut>>

handleDevModeToggle ==
    /\ app.events < MaxEvents
    /\ LET newActive == ~app.devModeActive
           a == refreshEffect([Event("handleDevModeToggle") EXCEPT !.devModeActive = newActive],
                              TRUE)
       IN IF app.location
          THEN fetchWeather(a, newActive, Val(mockParams))
          ELSE app' = a /\ UNCHANGED <<weather, recommendation>>
    /\ UNCHANGED <<now, settings, calls, ticks, mockParams, libIn, libOut>>

handleMockParamsChange ==
    /\ app.events < MaxEvents
    /\ \E params \in MockPresets :
          /\ mockParams' = Just(params)
          /\ IF app.devModeActive /\ app.location
             THEN fetchWeather(Event("handleMockParamsChange"), TRUE, params)
             ELSE app' = Event("handleMockParamsChange") /\ UNCHANGED <<weather, recommendation>>
    /\ UNCHANGED <<now, settings, calls, ticks, libIn, libOut>>

\* The 15-minute interval fires.
refreshInterval ==
    /\ app.events < MaxEvents
    /\ IsSome(app.intervalDue)
    /\ now >= Val(app.intervalDue)
    /\ fetchWeather([Event("refreshInterval") EXCEPT !.intervalDue = Just(Val(@) + 15)],
                    FALSE, Val(mockParams))
    /\ UNCHANGED <<now, settings, calls, ticks, mockParams, libIn, libOut>>

\* The forecast service answers one of the requests in flight.
fetchResolved ==
    /\ \E f \in app.inFlight, data \in RealWeathers :
          fetchWeatherResolved([app EXCEPT !.inFlight = @ \ {f}, !.last = "fetchResolved"],
                               f.id, f.closure, data)
    /\ UNCHANGED <<now, settings, calls, ticks, mockParams, libIn, libOut>>

\* One of the requests in flight fails: fetchWeather's catch and finally.
fetchRejected ==
    /\ \E f \in app.inFlight :
          app' = [app EXCEPT !.inFlight = @ \ {f}, !.last = "fetchRejected",
                             !.error = TRUE, !.isLoading = FALSE, !.failed = @ \cup {f.id}]
    /\ UNCHANGED <<now, weather, settings, recommendation, calls, ticks, mockParams, libIn, libOut>>

handleToggleNotifications ==
    /\ app.events < MaxEvents
    /\ app.location /\ app.permission # "denied"
    /\ \E granted \in BOOLEAN :
          LET e == Event("handleToggleNotifications")
              a == IF app.notificationsEnabled THEN [e EXCEPT !.notificationsEnabled = FALSE]
                   ELSE IF app.permission = "granted" THEN [e EXCEPT !.notificationsEnabled = TRUE]
                   ELSE [e EXCEPT !.notificationsEnabled = granted,
                                  !.permission = IF granted THEN "granted" ELSE "denied"]
          IN app' = refreshEffect(a, a.notificationsEnabled # app.notificationsEnabled)
    /\ UNCHANGED <<now, weather, settings, recommendation, calls, ticks, mockParams, libIn, libOut>>

handleAreaChange ==
    /\ app.events < MaxEvents
    /\ app.location
    /\ \E value \in AppAreas :
          /\ value > 0
          /\ settings' = [settings EXCEPT !.areaSquareMeters = value]
          /\ IF IsSome(weather)
             THEN recommendation' = Just(generateRecommendation(Val(weather), value,
                                             settings.lastShoveledAt, settings.snowplowPileHeight,
                                             settings.carDepartureTime))
             ELSE UNCHANGED recommendation
          /\ app' = refreshEffect(Event("handleAreaChange"), value # settings.areaSquareMeters)
    /\ UNCHANGED <<now, weather, calls, ticks, mockParams, libIn, libOut>>

handleMarkShoveled ==
    /\ app.events < MaxEvents
    /\ IsSome(weather) /\ IsSome(recommendation) /\ ~app.isLoading
    /\ settings' = [settings EXCEPT !.lastShoveledAt = Just(now)]
    /\ app' = refreshEffect(Event("handleMarkShoveled"), TRUE)
    /\ UNCHANGED <<now, weather, recommendation, calls, ticks, mockParams, libIn, libOut>>

\* The departure time input: a time, or the empty value.
onDepartureChange ==
    /\ app.events < MaxEvents
    /\ app.location
    /\ \E value \in DepartureTimes :
          /\ settings' = [settings EXCEPT !.carDepartureTime = value]
          /\ IF IsSome(weather)
             THEN recommendation' = Just(generateRecommendation(Val(weather),
                                             settings.areaSquareMeters, settings.lastShoveledAt,
                                             settings.snowplowPileHeight, value))
             ELSE UNCHANGED recommendation
          /\ app' = refreshEffect(Event("onDepartureChange"), value # settings.carDepartureTime)
    /\ UNCHANGED <<now, weather, calls, ticks, mockParams, libIn, libOut>>

\* The Clear button, shown while a pile is reported.
onClearPile ==
    /\ app.events < MaxEvents
    /\ app.location
    /\ IsSome(settings.snowplowPileHeight) /\ Val(settings.snowplowPileHeight) # 0
    /\ settings' = [settings EXCEPT !.snowplowPileHeight = Nothing]
    /\ IF IsSome(weather)
       THEN recommendation' = Just(generateRecommendation(Val(weather),
                                       settings.areaSquareMeters, settings.lastShoveledAt,
                                       Nothing, settings.carDepartureTime))
       ELSE UNCHANGED recommendation
    /\ app' = refreshEffect(Event("onClearPile"), TRUE)
    /\ UNCHANGED <<now, weather, calls, ticks, mockParams, libIn, libOut>>

\* The Report Pile button, shown while no pile is reported.
onReportPile ==
    /\ app.events < MaxEvents
    /\ app.location
    /\ ~(IsSome(settings.snowplowPileHeight) /\ Val(settings.snowplowPileHeight) # 0)
    /\ \E height \in AppPileHeights :
          /\ height > 0
          /\ settings' = [settings EXCEPT !.snowplowPileHeight = Just(height)]
          /\ IF IsSome(weather)
             THEN recommendation' = Just(generateRecommendation(Val(weather),
                                             settings.areaSquareMeters, settings.lastShoveledAt,
                                             Just(height), settings.carDepartureTime))
             ELSE UNCHANGED recommendation
          /\ app' = refreshEffect(Event("onReportPile"), TRUE)
    /\ UNCHANGED <<now, weather, calls, ticks, mockParams, libIn, libOut>>

\* A timer set by scheduleNotification runs its callback.
timerFires ==
    /\ \E tm \in app.timers :
          /\ now >= tm.fireAt
          /\ app' = showNotification([app EXCEPT !.timers = @ \ {tm}, !.last = "timerFires"], now)
    /\ UNCHANGED <<now, weather, settings, recommendation, calls, ticks, mockParams, libIn, libOut>>

\* Time passes between two events.
AppTick ==
    /\ ticks < MaxTicks
    /\ \E d \in AppSteps : now' = now + d
    /\ ticks' = ticks + 1
    /\ app' = [app EXCEPT !.last = "AppTick"]
    /\ UNCHANGED <<weather, settings, recommendation, calls, mockParams, libIn, libOut>>

NextApp ==
    \/ handleLocationSet
    \/ onRetry
    \/ handleDevModeToggle
    \/ handleMockParamsChange
    \/ refreshInterval
    \/ fetchResolved
    \/ fetchRejected
    \/ handleToggleNotifications
    \/ handleAreaChange
    \/ handleMarkShoveled
    \/ onDepartureChange
    \/ onClearPile
    \/ onReportPile
    \/ timerFires
    \/ AppTick

SpecApp == InitApp /\ [][NextApp]_vars

(***************************************************************************)
(* Properties of the recommendation engine (specification Spec)            *)
(***************************************************************************)
\* The clearing rate (tenths of m2 per minute) by depth band.
RateFor(depth) ==
    IF depth < Mm(50) THEN 25 ELSE IF depth < Mm(100) THEN 15
    ELSE IF depth < Mm(200) THEN 8 ELSE 4

Called == IsSome(recommendation)
Rec == Val(recommendation)

\* What the call that produced Rec derived from its inputs (Spec never
\* changes the inputs or the clock after Init).
Ctx ==
    aggregate(Val(weather), settings.lastShoveledAt, settings.snowplowPileHeight,
              settings.carDepartureTime, now)

\* none < low < moderate < high < urgent
Rank(u) ==
    CASE u = "none" -> 0 [] u = "low" -> 1 [] u = "moderate" -> 2
      [] u = "high" -> 3 [] u = "urgent" -> 4

\* The call took the final else branch: moderate and above, not mid-storm.
ModeratePath ==
    /\ Called
    /\ ~(Val(weather).current.snowfall > 0 /\ Rec.totalAccumulation >= Mm(200))
    /\ Rec.totalAccumulation >= Mm(25)

\* C1: a recommendation whose action flag shouldShovel is true never has
\* urgency "none".
C1_ActionImpliesUrgency ==
    Called => (Rec.shouldShovel => Rec.urgency # "none")

C1_Witness ==
    Called /\ Rec.shouldShovel /\ Rec.urgency = "low" /\ Rec.totalAccumulation >= Mm(25)

\* C2: the net accumulation of a recommendation is
\* max(0, snow - 10 * rain - solar melt) of the combined totals, so it is
\* never negative; the same holds of calculateNetAccumulation on a grid of
\* inputs.
C2_NetAccumulationFloor ==
    /\ Called =>
         LET c == Ctx
             raw == c.totalSnowfall - 10 * c.totalRain - c.totalSolarMelt
         IN /\ Rec.totalAccumulation = (IF raw > 0 THEN raw ELSE 0)
            /\ Rec.totalAccumulation >= 0
    /\ \A sn \in {0, 1500, Mm(8), Mm(90)} : \A r \in {0, 100, Mm(1), Mm(20)} :
         \A m \in {0, 100, 500, Mm(5)} :
            LET raw == sn - 10 * r - m
            IN calculateNetAccumulation(sn, r, m) = (IF raw > 0 THEN raw ELSE 0)

C2_Witness ==
    /\ Called
    /\ LET c == Ctx
       IN c.totalSnowfall > 0 /\ c.totalSnowfall - 10 * c.totalRain - c.totalSolarMelt < 0
    /\ Rec.totalAccumulation = 0

\* The tier the accumulation band alone implies on the moderate path.
BandTier(net) ==
    IF net >= Mm(150) THEN "high" ELSE IF net >= Mm(75) THEN "moderate" ELSE "low"

\* C3 as claimed: on the moderate-and-above path, a freeze deadline before
\* the computed target makes the final tier at least "high".
C3_FreezeAtLeastHigh ==
    (ModeratePath /\ freezeEscalated(Ctx)) => Rank(Rec.urgency) >= Rank("high")

\* C3 amended: on the moderate-and-above path a freeze deadline before the
\* computed target raises the band's tier by exactly one step (low to
\* moderate, moderate to high, high to urgent), so the final tier is at least
\* "moderate" and at least "high" only from 75 mm on; without such a
\* deadline the final tier is the band's tier.
C3_FreezeOneStepUp ==
    ModeratePath =>
        Rank(Rec.urgency) =
            Rank(BandTier(Rec.totalAccumulation)) + (IF freezeEscalated(Ctx) THEN 1 ELSE 0)

C3_Witness ==
    /\ ModeratePath
    /\ freezeEscalated(Ctx)
    /\ Rec.totalAccumulation < Mm(75)
    /\ Rec.urgency = "moderate"

\* Net accumulations below 10 mm, in every band, and above 150 and 200 mm.
NetLevels == {Mm(5), Mm(15), Mm(30), Mm(100), Mm(160), Mm(250)}

\* C4: with everything else the decision reads held fixed, a net
\* accumulation above (below) the one of this call never gives a lower
\* (higher) urgency tier than this call's.
C4_Monotone ==
    Called =>
        LET c == Ctx
        IN \A n \in NetLevels :
            /\ n >= Rec.totalAccumulation =>
                 Rank(decideUrgency(n, c).urgency) >= Rank(Rec.urgency)
            /\ n <= Rec.totalAccumulation =>
                 Rank(decideUrgency(n, c).urgency) <= Rank(Rec.urgency)

\* C5: the optimal action time, when present, is never earlier than now.  The
\* claim's exception (30 minutes before a freeze deadline) is never needed:
\* the clamp to now runs after the back-dating.
C5_OptimalTimeNotPast ==
    (Called /\ IsSome(Rec.optimalTime)) => Val(Rec.optimalTime) >= now

\* The freeze deadline is less than 30 minutes away, so the back-dated target
\* was in the past.
C5_Witness ==
    /\ ModeratePath
    /\ LET c == Ctx IN freezeEscalated(c) /\ Val(c.freezeTime) - 30 < now
    /\ IsSome(Rec.optimalTime)

\* C6: on the moderate-and-above path, while it is snowing and a snow-stop
\* time exists, the optimal action time is never earlier than the snow-stop
\* time.
C6_NeverMidFall ==
    (ModeratePath /\ Rec.isCurrentlySnowing /\ IsSome(Rec.snowStopTime)) =>
        Val(Rec.optimalTime) >= Val(Rec.snowStopTime)

\* C8 as claimed: an empty hourly series gives total accumulation 0 and tier
\* "none" whatever the other inputs are.
C8_EmptySeriesNone ==
    (Called /\ Val(weather).hourly = <<>>) =>
        (Rec.totalAccumulation = 0 /\ Rec.urgency = "none")

\* C8 amended: an empty hourly series gives total accumulation 0, no hazard
\* from the weather and no snow start or stop; the tier is "none" with no
\* action unless a positive plow-pile height is supplied, and then it is
\* "moderate" with action now.
C8_EmptySeries ==
    (Called /\ Val(weather).hourly = <<>>) =>
        /\ Rec.totalAccumulation = 0
        /\ ~Rec.slushWarning /\ ~Rec.blocksDriveway
        /\ Rec.snowStartTime = Nothing /\ Rec.snowStopTime = Nothing
        /\ IF IsSome(settings.snowplowPileHeight) /\ Val(settings.snowplowPileHeight) > 0
           THEN Rec.urgency = "moderate" /\ Rec.shouldShovel /\ Rec.optimalTime = Just(now)
           ELSE Rec.urgency = "none" /\ ~Rec.shouldShovel /\ Rec.optimalTime = Nothing

C8_Witness ==
    /\ Called
    /\ Val(weather).hourly = <<>>
    /\ Val(weather).current.snowfall > 0
    /\ settings.carDepartureTime # <<>>
    /\ Rec.urgency = "none"

PileSupplied ==
    IsSome(settings.snowplowPileHeight) /\ Val(settings.snowplowPileHeight) > 0

\* C12: whenever a positive plow-pile height is supplied the recommendation
\* has snowplowPileDetected and shouldShovel true; when none or a
\* non-positive one is supplied, snowplowPileDetected is false.
C12_PileOverride ==
    Called =>
        IF PileSupplied THEN Rec.snowplowPileDetected /\ Rec.shouldShovel
        ELSE ~Rec.snowplowPileDetected

\* A pile over weather that alone asks for nothing.
C12_Witness ==
    /\ Called
    /\ PileSupplied
    /\ Rec.totalAccumulation < Mm(10)
    /\ ~Rec.blocksDriveway /\ ~Rec.slushWarning
    /\ Rec.snowplowPileDetected /\ Rec.shouldShovel

\* The most recent 18:00 at or before now, and the next 07:00 at or after now.
LastEvening ==
    LET d == now - (now % DayMinutes)
    IN IF d + Hours(18) <= now THEN d + Hours(18) ELSE d - Hours(6)

NextMorning ==
    LET d == now - (now % DayMinutes)
    IN IF d + Hours(7) >= now THEN d + Hours(7) ELSE d + Hours(31)

RECURSIVE SumOver(_, _)
SumOver(f, S) ==
    IF S = {} THEN 0 ELSE LET i == CHOOSE j \in S : TRUE IN f[i] + SumOver(f, S \ {i})

\* Snowfall of the samples between the last 18:00 and the next 07:00.
OvernightSnow ==
    LET hs == Val(weather).hourly
    IN SumOver(Snowfalls(hs),
               {i \in 1..Len(hs) : hs[i].time >= LastEvening /\ hs[i].time <= NextMorning})

\* C13: for weather with overnight snowfall of at least 5 mm and net
\* accumulation below 10 mm, no pile and no slush hazard: without a
\* departure time there is no action and no driveway blocking; with a
\* departure time (07:00) the action flag and blocksDriveway are true, the
\* tier is moderate and the message is the driveway message, at either time
\* of day.
C13_DepartureBlocking ==
    (Called /\ ~Rec.snowplowPileDetected /\ ~Rec.slushWarning
        /\ Rec.totalAccumulation < Mm(10) /\ OvernightSnow >= Mm(5)) =>
        IF settings.carDepartureTime = <<>>
        THEN ~Rec.shouldShovel /\ ~Rec.blocksDriveway
        ELSE /\ Rec.shouldShovel /\ Rec.blocksDriveway
             /\ Rec.urgency = "moderate"
             /\ Rec.message = "Clear driveway for morning departure."

\* In the evening, the departure is tomorrow's.
C13_Witness ==
    /\ Called /\ ~Rec.snowplowPileDetected /\ ~Rec.slushWarning
    /\ Rec.totalAccumulation < Mm(10) /\ OvernightSnow >= Mm(5)
    /\ settings.carDepartureTime # <<>>
    /\ now % DayMinutes > Hours(18)
    /\ Rec.blocksDriveway /\ Rec.shouldShovel

\* Some future-window sample with snowfall is immediately followed by a
\* future-window sample with more than 1 mm/h of rain.
SnowThenRain ==
    LET hs == Val(weather).hourly
        inFuture(i) == hs[i].time >= now /\ hs[i].time <= now + Hours(24)
    IN \E i \in 1..(Len(hs) - 1) :
          inFuture(i) /\ inFuture(i + 1) /\ hs[i].snowfall > 0 /\ hs[i + 1].rain > Mm(1)

TotalSnowfallAbove5 == Ctx.totalSnowfall > Mm(5)

\* r.includes("rain") || r.includes("slush"), over the reasoning templates.
MentionsRainOrSlush(r) ==
    r \in {"Rain after snow creates slush that needs clearing.",
           "Salt timing: wait for rain to stop before applying."}

InReasoning(r) == \E k \in 1..Len(Rec.reasoning) : Rec.reasoning[k] = r

\* C14 as claimed: snow followed by rain above 1 mm/h in the future window
\* with total snowfall above 5 mm gives slushWarning and a reasoning string
\* that mentions rain or slush.
C14_SlushReasoned ==
    (Called /\ SnowThenRain /\ TotalSnowfallAbove5) =>
        /\ Rec.slushWarning
        /\ \E k \in 1..Len(Rec.reasoning) : MentionsRainOrSlush(Rec.reasoning[k])

\* The slush branch of the override table decides the outcome.
SlushDecides ==
    /\ ~(Rec.isCurrentlySnowing /\ Rec.totalAccumulation >= Mm(200))
    /\ Rec.totalAccumulation < Mm(25)
    /\ ~Rec.snowplowPileDetected /\ ~Rec.blocksDriveway

\* C14 amended: snow followed by rain above 1 mm/h in the future window with
\* total snowfall above 5 mm gives slushWarning; the slush reasoning string
\* is present exactly when the slush branch decides the outcome (not
\* mid-storm, net accumulation below 25 mm, no pile, driveway not blocked).
C14_SlushFlagged ==
    (Called /\ SnowThenRain /\ TotalSnowfallAbove5) =>
        /\ Rec.slushWarning
        /\ InReasoning("Rain after snow creates slush that needs clearing.") <=> SlushDecides

\* The hazard is flagged on the moderate path, where no string names it.
C14_Witness ==
    /\ Called /\ SnowThenRain /\ TotalSnowfallAbove5
    /\ Rec.slushWarning
    /\ Rec.totalAccumulation >= Mm(25)
    /\ ~InReasoning("Rain after snow creates slush that needs clearing.")

\* C15: while it is snowing and net accumulation is at least 200 mm, the
\* recommendation is "urgent", act now, whatever the pile, departure, slush
\* and freeze context are.
C15_MidStormFirst ==
    (Called /\ Val(weather).current.snowfall > 0 /\ Rec.totalAccumulation >= Mm(200)) =>
        /\ Rec.urgency = "urgent"
        /\ Rec.shouldShovel
        /\ Rec.optimalTime = Just(now)
        /\ Rec.message = "Heavy snowfall - shovel now to prevent buildup!"

C15_Witness ==
    /\ Called /\ Val(weather).current.snowfall > 0 /\ Rec.totalAccumulation >= Mm(200)
    /\ Rec.snowplowPileDetected /\ Rec.blocksDriveway
    /\ IsSome(Rec.snowStopTime) /\ Val(Rec.snowStopTime) > now
    /\ Rec.urgency = "urgent"

\* C16: below 25 mm and not mid-storm the outcome is the first match of:
\* pile -> moderate, act now; driveway blocked -> moderate, act now; slush ->
\* low, act now; else no action, tier none below 10 mm and low from 10 mm.
C16_OverrideTable ==
    (Called /\ Rec.totalAccumulation < Mm(25)) =>
        IF Rec.snowplowPileDetected
        THEN Rec.urgency = "moderate" /\ Rec.shouldShovel /\ Rec.optimalTime = Just(now)
        ELSE IF Rec.blocksDriveway
        THEN Rec.urgency = "moderate" /\ Rec.shouldShovel /\ Rec.optimalTime = Just(now)
        ELSE IF Rec.slushWarning
        THEN Rec.urgency = "low" /\ Rec.shouldShovel /\ Rec.optimalTime = Just(now)
        ELSE /\ ~Rec.shouldShovel
             /\ Rec.urgency = (IF Rec.totalAccumulation < Mm(10) THEN "none" ELSE "low")

\* A blocked driveway and a slush hazard without a pile: the driveway wins.
C16_Witness ==
    /\ Called
    /\ Rec.totalAccumulation < Mm(25)
    /\ ~Rec.snowplowPileDetected /\ Rec.blocksDriveway /\ Rec.slushWarning
    /\ Rec.urgency = "moderate"

\* C17: on the moderate-and-above path the action flag is true and the tier
\* is high / moderate / low for net accumulation from 150 / from 75 / from
\* 25 mm, and urgent / high / moderate when a freeze deadline escalated it.
C17_BandMapping ==
    ModeratePath =>
        LET net == Rec.totalAccumulation
            esc == freezeEscalated(Ctx)
        IN /\ Rec.shouldShovel
           /\ net >= Mm(150) => Rec.urgency = (IF esc THEN "urgent" ELSE "high")
           /\ (net >= Mm(75) /\ net < Mm(150)) =>
                 Rec.urgency = (IF esc THEN "high" ELSE "moderate")
           /\ net < Mm(75) => Rec.urgency = (IF esc THEN "moderate" ELSE "low")

C17_Witness ==
    /\ ModeratePath
    /\ Rec.totalAccumulation >= Mm(75) /\ Rec.totalAccumulation < Mm(150)
    /\ Rec.urgency = "high"

\* Rain summed over the future window, and the lowest temperature in it.
FutureIndexes ==
    LET hs == Val(weather).hourly
    IN {i \in 1..Len(hs) : hs[i].time >= now /\ hs[i].time <= now + Hours(24)}

FutureRain == SumOver(Rains(Val(weather).hourly), FutureIndexes)

\* C19: the engine passes to the salt recommendation the current
\* temperature, the forecast minimum of the future window, snow_expected =
\* (total snowfall above 10 mm), the current rain rate, and rain_expected =
\* (rain summed over the future window above 2 mm).
C19_SaltInputs ==
    Called =>
        LET c == Ctx
            in == saltInputsOf(Val(weather), c)
            hs == Val(weather).hourly
        IN /\ in.currentTemp = Val(weather).current.temperature
           /\ in.currentRain = Val(weather).current.rain
           /\ in.snowExpected = (c.totalSnowfall > Mm(10))
           /\ \A i \in FutureIndexes : in.forecastMinTemp <= hs[i].temperature
           /\ FutureIndexes # {} => \E i \in FutureIndexes : in.forecastMinTemp = hs[i].temperature
           /\ in.rainExpected = (FutureRain > Mm(2))

\* The weather with the snowfall of every sample before the instant ls removed.
WithoutSnowBefore(w, ls) ==
    [w EXCEPT !.hourly =
        [i \in 1..Len(w.hourly) |->
            IF w.hourly[i].time < ls THEN [w.hourly[i] EXCEPT !.snowfall = 0]
            ELSE w.hourly[i]]]

\* C26: when the last-cleared time lies within the past 24 hours, the
\* snowfall of samples before it has no influence: the same call on the
\* series without that snowfall gives the same action flag, urgency tier and
\* hazard flags.
C26_ClearedSnowIgnored ==
    (Called /\ IsSome(settings.lastShoveledAt)
        /\ Val(settings.lastShoveledAt) > now - Hours(24)
        /\ Val(settings.lastShoveledAt) <= now) =>
        LET other == generateRecommendation(
                         WithoutSnowBefore(Val(weather), Val(settings.lastShoveledAt)),
                         settings.areaSquareMeters, settings.lastShoveledAt,
                         settings.snowplowPileHeight, settings.carDepartureTime)
        IN /\ other.shouldShovel = Rec.shouldShovel
           /\ other.urgency = Rec.urgency
           /\ other.slushWarning = Rec.slushWarning
           /\ other.blocksDriveway = Rec.blocksDriveway
           /\ other.snowplowPileDetected = Rec.snowplowPileDetected

\* C27: the optimal time is present exactly when shouldShovel is true, and
\* so is the effort estimate, which then is calculateManpower of the area
\* and the net accumulation.
C27_PresentIffAction ==
    Called =>
        /\ IsSome(Rec.optimalTime) <=> Rec.shouldShovel
        /\ IsSome(Rec.estimatedMinutes) <=> Rec.shouldShovel
        /\ Rec.shouldShovel =>
             LET m == Val(Rec.estimatedMinutes)
             IN /\ m * RateFor(Rec.totalAccumulation) >= 10 * settings.areaSquareMeters
                /\ (m - 1) * RateFor(Rec.totalAccumulation) < 10 * settings.areaSquareMeters

\* The light band with nothing to override it: nothing to do, no time, no
\* estimate.
C27_Witness ==
    /\ Called
    /\ Rec.totalAccumulation >= Mm(10) /\ Rec.totalAccumulation < Mm(25)
    /\ ~Rec.shouldShovel
    /\ Rec.optimalTime = Nothing /\ Rec.estimatedMinutes = Nothing

(***************************************************************************)
(* Time windows (specification SpecWindows)                                *)
(***************************************************************************)
\* The samples with max(last_cleared, now - 24h) <= time <= now, last_cleared
\* counting only when present and less than 24 hours old.
PastIndexes ==
    LET hs == Val(weather).hourly
        ls == settings.lastShoveledAt
        from == IF IsSome(ls) /\ Val(ls) > now - Hours(24) THEN Val(ls) ELSE now - Hours(24)
    IN {i \in 1..Len(hs) : from <= hs[i].time /\ hs[i].time <= now}

\* C20: the past window holds exactly the samples with
\* max(last_cleared, now - 24h) <= time <= now and the future window exactly
\* those with now <= time <= now + 24h, bounds included; the past and future
\* sums of snowfall and rain are taken over exactly these samples, and the
\* net accumulation reported is computed from them.
C20_Windows ==
    Called =>
        LET c == Ctx
            hs == Val(weather).hourly
        IN /\ c.pastSnowfall = SumOver(Snowfalls(hs), PastIndexes)
           /\ c.pastRain = SumOver(Rains(hs), PastIndexes)
           /\ c.futureSnowfall = SumOver(Snowfalls(hs), FutureIndexes)
           /\ c.futureRain = SumOver(Rains(hs), FutureIndexes)
           /\ Rec.totalAccumulation =
                 Max(0, SumOver(Snowfalls(hs), PastIndexes) + SumOver(Snowfalls(hs), FutureIndexes)
                        - 10 * (SumOver(Rains(hs), PastIndexes) + SumOver(Rains(hs), FutureIndexes))
                        - SumOver(SolarMelts(hs), PastIndexes)
                        - SumOver(SolarMelts(hs), FutureIndexes))
           /\ (c.pastSnowfall > 0) =
                 (InReasoning("accumulated since last shoveled, expected.")
                  \/ InReasoning("accumulated in past 24h, expected."))

\* A sample 25 hours old is left out, the one exactly 24 hours old counts.
C20_Witness ==
    /\ Called
    /\ Len(Val(weather).hourly) = 2
    /\ Val(weather).hourly[1].time = now - Hours(25)
    /\ Val(weather).hourly[1].snowfall > 0
    /\ Val(weather).hourly[2].snowfall > 0
    /\ settings.lastShoveledAt = Just(now - Hours(30))
    /\ Ctx.pastSnowfall = Val(weather).hourly[2].snowfall

\* C21: snow start is the time of the first future-window sample with
\* snowfall and snow stop the time of the last one plus one hour; both are
\* absent when the future window has no snowfall; when present, snow stop is
\* at least an hour after snow start and after now.
C21_SnowStartStop ==
    Called =>
        LET hs == Val(weather).hourly
            snowy == {i \in FutureIndexes : hs[i].snowfall > 0}
        IN IF snowy = {}
           THEN Rec.snowStartTime = Nothing /\ Rec.snowStopTime = Nothing
           ELSE LET first == CHOOSE i \in snowy : \A j \in snowy : i <= j
                    last == CHOOSE i \in snowy : \A j \in snowy : i >= j
                IN /\ Rec.snowStartTime = Just(hs[first].time)
                   /\ Rec.snowStopTime = Just(hs[last].time + 60)
                   /\ Val(Rec.snowStopTime) >= Val(Rec.snowStartTime) + 60
                   /\ Val(Rec.snowStopTime) > now

\* Snow falls in the last sample inside the window and in one beyond it.
C21_Witness ==
    /\ Called
    /\ Len(Val(weather).hourly) = 2
    /\ Val(weather).hourly[1].snowfall > 0
    /\ Val(weather).hourly[2].snowfall > 0
    /\ Val(weather).hourly[2].time > now + Hours(24)
    /\ Rec.snowStopTime = Just(Val(weather).hourly[1].time + 60)

\* C24: slushWarning is true exactly when total snowfall (past + future)
\* exceeds 5 mm and either a future-window sample with snowfall is
\* immediately followed by one with rain above 1 mm/h, or past snowfall
\* exceeds 5 mm and future rain exceeds 2 mm; whichever urgency path is taken.
C24_SlushDefinition ==
    Called =>
        LET hs == Val(weather).hourly
            pastSnow == SumOver(Snowfalls(hs), PastIndexes)
            futureSnow == SumOver(Snowfalls(hs), FutureIndexes)
        IN Rec.slushWarning =
              (/\ pastSnow + futureSnow > Mm(5)
               /\ \/ SnowThenRain
                  \/ (pastSnow > Mm(5) /\ FutureRain > Mm(2)))

\* Past snow and rain to come, no snowy sample in the future window, on the
\* moderate-and-above path.
C24_Witness ==
    /\ ModeratePath
    /\ Rec.slushWarning
    /\ ~SnowThenRain
    /\ Rec.snowStartTime = Nothing

\* C25: no sample is counted twice: the combined totals of snowfall, rain and
\* solar melt are the sums over the samples that lie in the past or in the
\* future window, each taken once, and the net accumulation is computed from
\* these.
C25_NoDoubleCount ==
    Called =>
        LET c == Ctx
            hs == Val(weather).hourly
            counted == PastIndexes \cup FutureIndexes
        IN /\ c.totalSnowfall = SumOver(Snowfalls(hs), counted)
           /\ c.totalRain = SumOver(Rains(hs), counted)
           /\ c.totalSolarMelt = SumOver(SolarMelts(hs), counted)
           /\ Rec.totalAccumulation =
                 Max(0, SumOver(Snowfalls(hs), counted) - 10 * SumOver(Rains(hs), counted)
                        - SumOver(SolarMelts(hs), counted))

LastCall == calls[Len(calls)]

\* The last call was made at the clock reading the series starts at.
SeriesStartsAtCall == LastCall.t = Val(weather).hourly[1].time

ScenarioCalled(id) == Called /\ Val(mockParams).id = id

\* C9 as claimed: heavy overnight storm, series starting at now: action flag
\* true, tier high or urgent, net accumulation 90 mm.
C9_HeavyOvernightHigh ==
    (ScenarioCalled("heavy-overnight-snow") /\ SeriesStartsAtCall) =>
        /\ Rec.shouldShovel
        /\ Rec.urgency \in {"high", "urgent"}
        /\ Rec.totalAccumulation = Mm(90)

\* C9 amended: heavy overnight storm with default parameters: action flag
\* true and tier "moderate"; net accumulation is 105 mm when the series
\* starts at now (the sample at now is in the past and in the future window)
\* and 90 mm when the call comes a minute or two after the series' start.
C9_HeavyOvernight ==
    ScenarioCalled("heavy-overnight-snow") =>
        /\ Rec.shouldShovel
        /\ Rec.urgency = "moderate"
        /\ Rec.totalAccumulation = (IF SeriesStartsAtCall THEN Mm(105) ELSE Mm(90))

C9_Witness ==
    /\ ScenarioCalled("heavy-overnight-snow")
    /\ SeriesStartsAtCall
    /\ Rec.totalAccumulation = Mm(105)

\* C10 as claimed: light snow plus rain melt: net accumulation 0 and tier
\* "none".
C10_RainMeltNone ==
    ScenarioCalled("light-snow-rain-melt") =>
        (Rec.totalAccumulation = 0 /\ Rec.urgency = "none")

\* C10 amended: light snow plus rain melt with default parameters: net
\* accumulation 0, and because snow is followed by rain above 1 mm/h with
\* more than 5 mm of snowfall the slush hazard is set and the tier is "low"
\* with action flag true.
C10_RainMeltSlush ==
    ScenarioCalled("light-snow-rain-melt") =>
        /\ Rec.totalAccumulation = 0
        /\ Rec.slushWarning
        /\ Rec.urgency = "low"
        /\ Rec.shouldShovel
        /\ Rec.message = "Slush cleanup recommended."

C10_Witness ==
    /\ ScenarioCalled("light-snow-rain-melt")
    /\ SeriesStartsAtCall
    /\ Rec.urgency = "low"

(***************************************************************************)
(* Library functions called directly (specification SpecLib)               *)
(***************************************************************************)
LibCalled(fn) == IsSome(libIn) /\ Val(libIn).fn = fn /\ IsSome(libOut)
LibIn == Val(libIn)
LibOut == Val(libOut)

C22_Manpower ==
    LibCalled("calculateManpower") =>
        LET a == LibIn.areaSquareMeters
            d == LibIn.snowDepthMm
        IN /\ LibOut * RateFor(d) >= 10 * a
           /\ (LibOut - 1) * RateFor(d) < 10 * a
           /\ \A d2 \in ManpowerDepths : d2 >= d => calculateManpower(a, d2) >= LibOut
           /\ \A a2 \in ManpowerAreas : a2 >= a => calculateManpower(a2, d) >= LibOut

\* 50 m2 at 0.8 m2 per minute: 62.5, rounded up.
C22_Witness ==
    /\ LibCalled("calculateManpower")
    /\ LibIn.areaSquareMeters = 50 /\ LibIn.snowDepthMm = Mm(150)
    /\ LibOut = 63

\* The compaction factor in tenths.
FactorFor(wind) ==
    IF wind < Kmh(10) THEN 10 ELSE IF wind < Kmh(25) THEN 12
    ELSE IF wind < Kmh(40) THEN 15 ELSE 20

\* C23: adjustShovelWindowForWind(base, wind) is max(0.5 h, base / factor),
\* factor being 1, 1.2, 1.5, 2 for wind below 10, below 25, below 40 km/h and
\* from 40 km/h; it is never below half an hour, equals the base for calm
\* wind, never exceeds a base of at least half an hour, and does not grow
\* with the wind.  The result is in minutes.
C23_WindowForWind ==
    LibCalled("adjustShovelWindowForWind") =>
        LET b == LibIn.baseWindowHours
            w == LibIn.windSpeedKmh
        IN /\ 10 * LibOut = Max(300, (600 * b * 10) \div FactorFor(w))
           /\ LibOut >= 30
           /\ (w < Kmh(10) /\ b >= 1) => LibOut = 60 * b
           /\ b >= 1 => LibOut <= 60 * b
           /\ \A w2 \in WindowWinds : w2 >= w => adjustShovelWindowForWind(b, w2) <= LibOut

\* A base of zero hours is lifted to half an hour.
C23_Witness ==
    /\ LibCalled("adjustShovelWindowForWind")
    /\ LibIn.baseWindowHours = 0
    /\ LibOut = 30

(***************************************************************************)
(* Properties of the App component (specification SpecApp)                 *)
(***************************************************************************)
\* The settings handlers that change an input of the engine.
SettingsHandlers ==
    {"handleAreaChange", "onDepartureChange", "onClearPile", "onReportPile",
     "handleMarkShoveled"}

\* The recommendation for the stored weather and the stored settings.
Recomputed ==
    generateRecommendation(Val(weather), settings.areaSquareMeters, settings.lastShoveledAt,
                           settings.snowplowPileHeight, settings.carDepartureTime)

\* The handlers other than Mark Shoveled recalculate: after one of them has
\* run with weather loaded, the stored recommendation is the recomputed one.
HandlersThatRecalculate ==
    (app.last \in SettingsHandlers \ {"handleMarkShoveled"} /\ IsSome(weather)) =>
        recommendation = Just(Recomputed)

\* C28: after a settings handler that changes an input of the engine (area,
\* departure time, pile reported or cleared, Mark Shoveled) has run with
\* weather loaded, the stored recommendation is generateRecommendation of the
\* stored weather and the new settings.
C28_SettingsRecompute ==
    (app.last \in SettingsHandlers /\ IsSome(weather)) =>
        recommendation = Just(Recomputed)

\* isLoading is true while a fetch is in flight.
LoadingWhileInFlight == app.inFlight # {} => app.isLoading

\* Once every fetch has completed, the last one started not having failed,
\* the stored weather is the one that fetch delivered.
LastStartedLoaded ==
    (app.inFlight = {} /\ app.started > 0 /\ app.started \notin app.failed) =>
        app.loadedBy = app.started

\* C29: when fetches overlap, isLoading is true for as long as one of them is
\* in flight, and once all have completed the stored weather (and with it
\* the recommendation) is that of the fetch started last.
C29_LastFetchWins == LoadingWhileInFlight /\ LastStartedLoaded

\* At most one notification timer is outstanding.
NoSecondTimer == Cardinality(app.timers) <= 1

\* No notification is shown while notifications are disabled.
NoneShownWhenDisabled == \A n \in app.shown : n.enabled

\* C30: at most one shovel notification is pending at any time, and none is
\* shown after the user has disabled notifications.
C30_OnePending == NoSecondTimer /\ NoneShownWhenDisabled

====
